---- MODULE Spec2Model ----
(***************************************************************************)
(* RPiCoincidenceController (rpi_coincidence_control.py): the controller   *)
(* of the coincidence trigger generator FPGA.  Every public operation is   *)
(* modelled at the granularity of its GPIO output calls and of its lock    *)
(* acquisition, so that interleavings of concurrent callers are explored.  *)
(*                                                                         *)
(* Strings are sequences of one-character strings.  A requested window     *)
(* delay is the rational arg / DelayDen picoseconds.  np.uint8 wraps       *)
(* modulo 256 (the numpy 1.x behaviour of the Python 2 code base).         *)
(***************************************************************************)
EXTENDS Integers, Sequences, FiniteSets, TLC

\* ------------------------------------------------------------------ bounds
NumThreads == 2
MaxCalls == 2
MaxFineCalls == 3
MaxBucketCalls == 3
MaxSourceCalls == 2
MaxWindowPairCalls == 2
MaxLiveCalls == 2
MaxDelay == 1700
DelayDen == 2

Threads == 1..NumThreads
NoThread == 0
None == -1

\* ------------------------------------------------------- tables (__init__)
mode_dict ==
    [inc_phase |-> 1, dec_phase |-> 2, quadrature |-> 3, pause_trig |-> 4,
     bucket |-> 5, window |-> 6, laser_trig_source |-> 7, ring_rf_source |-> 8]

ModeKeys == DOMAIN mode_dict

delay_bin == <<16, 77, 140, 166, 231, 292, 343, 424>>

\* np.uint8(x) for a Python int x: wraps modulo 2^8.
Uint8(x) == x % 256

\* np.unpackbits(np.uint8(x))[::-1]: the 8 bits of x, least significant first.
UnpackBitsReversed(x) == [b \in 1..8 |-> (Uint8(x) \div (2 ^ (b - 1))) % 2]

RECURSIVE SeqSum(_)
SeqSum(s) == IF s = <<>> THEN 0 ELSE s[1] + SeqSum(Tail(s))

DelayEntryMsbFirst(d) ==
    SeqSum([b \in 1..8 |-> UnpackBitsReversed(d)[9 - b] * delay_bin[b]])

\* (np.unpackbits(np.uint8(d))[::-1] * self.delay_bin).sum()
DelayEntry(d) == SeqSum([b \in 1..8 |-> UnpackBitsReversed(d)[b] * delay_bin[b]])

\* self.delay_array, indexed 0..255 as in the source.
delay_array == [d \in 0..255 |-> DelayEntry(d)]

Abs(x) == IF x < 0 THEN -x ELSE x

\* |delay_array[i] - delay| for delay = n / DelayDen, scaled by DelayDen.
AbsDiff(i, n) == Abs(delay_array[i] * DelayDen - n)

\* numpy argmin over the indices lo..hi: the first index of the smallest value
\* (the scan is split in halves; the left half wins ties).
RECURSIVE ArgMinLastIn(_, _, _)
ArgMinLastIn(n, lo, hi) ==
    IF lo = hi THEN lo
    ELSE LET mid == (lo + hi) \div 2
             l == ArgMinLastIn(n, lo, mid)
             r == ArgMinLastIn(n, mid + 1, hi)
         IN IF AbsDiff(r, n) <= AbsDiff(l, n) THEN r ELSE l

RECURSIVE ArgMinIn(_, _, _)
ArgMinIn(n, lo, hi) ==
    IF lo = hi THEN lo
    ELSE LET mid == (lo + hi) \div 2
             l == ArgMinIn(n, lo, mid)
             r == ArgMinIn(n, mid + 1, hi)
         IN IF AbsDiff(r, n) < AbsDiff(l, n) THEN r ELSE l

ArgMinLast(n) == ArgMinLastIn(n, 0, 255)

\* np.abs(self.delay_array - delay).argmin()
ArgMin(n) == ArgMinIn(n, 0, 255)

\* ind of set_window (line 194) for every request n / DelayDen, tabulated.
window_ind == [n \in 0..(MaxDelay * DelayDen) |-> ArgMin(n)]

\* ----------------------------------------------------------------- strings
LowerChars == <<"a", "b", "c", "d", "e", "f", "g", "h", "i", "j", "k", "l", "m",
                "n", "o", "p", "q", "r", "s", "t", "u", "v", "w", "x", "y", "z">>
UpperChars == <<"A", "B", "C", "D", "E", "F", "G", "H", "I", "J", "K", "L", "M",
                "N", "O", "P", "Q", "R", "S", "T", "U", "V", "W", "X", "Y", "Z">>

LowerChar(c) ==
    IF \E i \in 1..26 : UpperChars[i] = c
    THEN LowerChars[CHOOSE i \in 1..26 : UpperChars[i] = c] ELSE c
UpperChar(c) ==
    IF \E i \in 1..26 : LowerChars[i] = c
    THEN UpperChars[CHOOSE i \in 1..26 : LowerChars[i] = c] ELSE c

\* str.lower(), str.upper()
Lower(s) == [i \in 1..Len(s) |-> LowerChar(s[i])]
Upper(s) == [i \in 1..Len(s) |-> UpperChar(s[i])]

\* Python's `needle in hay` for strings.
Contains(needle, hay) ==
    \E i \in 1..(Len(hay) - Len(needle) + 1) :
        SubSeq(hay, i, i + Len(needle) - 1) = needle

\* ------------------------------------------------------------ call inputs
BucketArgs == {63, 64}
CoarseArgs == {3, 4}
FineArgs == {-1, 100}
FineSeqArgs == {-1, 0, 30, 100, 255, 510}
WindowArgs == {50 * DelayDen}
RawArgs == {255}
PhaseAdvArgs == {25}
LaserArgs == { <<"m", "r", "f">>, <<"C", "O", "I", "N", "C", "I", "D", "E", "N", "C", "E">> }
RingArgs == { <<"R", "E", "V", "_", "C", "L", "O", "C", "K">>, <<"1", "0", "0", "M", "H", "Z">> }

SourceArgs ==
    { <<"m", "r", "f">>, <<"M", "R", "F">>, <<"t", "y", "p", "o">>, <<>>,
      <<"c", "o", "i", "n", "c", "i", "d", "e", "n", "c", "e", "_", "m", "o", "d", "e">>,
      <<"x", "C", "o", "I", "n">>, <<"c", "o", "_", "i", "n">>,
      <<"R", "E", "V", "_", "C", "L", "O", "C", "K">>, <<"a", "r", "e", "v">>,
      <<"1", "0", "0", "M", "H", "Z">>, <<"R", "E">> }

Setters == {"set_bucket", "write_window_raw", "set_window", "set_laser_trig",
            "set_ring_rf_source", "set_offset_fine", "set_offset_coarse",
            "set_avg_phase_advance"}
Getters == {"get_bucket", "get_window", "get_laser_trig", "get_ring_rf_source",
            "get_offset_fine", "get_offset_coarse"}

CtorCallsDefaultTrig ==
    << <<"set_bucket", 0, <<>> >>,
       <<"set_window", 0, <<>> >>,
       <<"set_offset_fine", 0, <<>> >>,
       <<"set_ring_rf_source", 0, <<"R", "E", "V", "_", "C", "L", "O", "C", "K">> >>,
       <<"set_laser_trig", 0, <<"M", "R", "F">> >> >>

\* The calls of __init__ (lines 134-138), in order: <<operation, arg, source>>.
CtorCalls ==
    << <<"set_bucket", 0, <<>> >>,
       <<"set_window", 0, <<>> >>,
       <<"set_offset_fine", 0, <<>> >>,
       <<"set_ring_rf_source", 0, <<"R", "E", "V", "_", "C", "L", "O", "C", "K">> >>,
       <<"set_laser_trig", 0, <<"C", "O", "I", "N", "C", "I", "D", "E", "N", "C", "E">> >> >>

\* ------------------------------------------------------------------- state
VARIABLES
    target_bucket, window, laser_trig, ring_rf, offset_fine, offset_coarse,
    current_phase_counter, phase_adv,   \* Device State (self.*)
    attr_lock,                          \* holder of self.attr_lock, or NoThread
    pin_levels, strobe,                 \* levels of pin_list and of the strobe pin
    frame,                              \* per thread: the running call
    ctor,                               \* number of __init__ calls completed
    ncalls,                             \* calls made after construction
    last_write,                         \* per mode code: data of the last completed write
    phase_driven,                       \* bytes strobed under inc_phase minus under dec_phase
    bucket_set,                         \* argument of the last successful set_bucket
    since_bucket                        \* outcomes of the other setters since then

dev_vars == <<target_bucket, window, laser_trig, ring_rf, offset_fine, offset_coarse,
              current_phase_counter, phase_adv>>
gpio_vars == <<pin_levels, strobe, last_write, phase_driven>>
hist_vars == <<bucket_set, since_bucket>>
vars == <<dev_vars, attr_lock, gpio_vars, frame, ctor, ncalls, hist_vars>>

DevState ==
    [target_bucket |-> target_bucket, window |-> window, laser_trig |-> laser_trig,
     ring_rf |-> ring_rf, offset_fine |-> offset_fine, offset_coarse |-> offset_coarse,
     current_phase_counter |-> current_phase_counter, phase_adv |-> phase_adv]

NoSnap ==
    [target_bucket |-> None, window |-> None, laser_trig |-> None,
     ring_rf |-> None, offset_fine |-> None, offset_coarse |-> None,
     current_phase_counter |-> None, phase_adv |-> None]

IdleFrame ==
    [pc |-> "idle", op |-> "none", arg |-> 0, source |-> <<>>, ind |-> None,
     delay_min |-> None, writes |-> <<>>, ret |-> None, outcome |-> "none",
     gpio |-> <<>>, snap |-> NoSnap]

\* Lines 120-133 of __init__, and the pins configured as outputs by init_gpio.
Init ==
    /\ target_bucket = 0
    /\ window = 0
    /\ laser_trig = 0
    /\ ring_rf = 0
    /\ offset_fine = 0
    /\ offset_coarse = 0
    /\ current_phase_counter = 0
    /\ phase_adv = 23
    /\ attr_lock = NoThread
    /\ pin_levels = [i \in 1..12 |-> 0]
    /\ strobe = 0
    /\ frame = [t \in Threads |-> IdleFrame]
    /\ ctor = 0
    /\ ncalls = 0
    /\ last_write = [m \in 0..15 |-> None]
    /\ phase_driven = 0
    /\ bucket_set = None
    /\ since_bucket = {}

Constructed == ctor = Len(CtorCalls)

\* --------------------------------------------------------- calling a method
\* Statements of a method before its `with self.attr_lock:`; only set_window
\* has any that matter (lines 194-195).
Enter(t, o, a, src) ==
    /\ frame[t].pc = "idle"
    /\ LET ind == IF o = "set_window" THEN window_ind[a] ELSE None
           delay_min == IF o = "set_window" THEN delay_array[ind] ELSE None
       IN frame' = [frame EXCEPT ![t] =
                       [IdleFrame EXCEPT
                           !.pc = "lock", !.op = o, !.arg = a, !.source = src,
                           !.ind = ind, !.delay_min = delay_min]]
    /\ UNCHANGED <<dev_vars, attr_lock, gpio_vars, hist_vars>>

\* __init__ runs its five setters on the constructing thread.
CtorCall ==
    /\ ~Constructed
    /\ Enter(1, CtorCalls[ctor + 1][1], CtorCalls[ctor + 1][2], CtorCalls[ctor + 1][3])
    /\ UNCHANGED <<ctor, ncalls>>

ArgsOf(o) ==
    CASE o = "set_bucket" -> BucketArgs
      [] o = "set_offset_coarse" -> CoarseArgs
      [] o = "set_offset_fine" -> FineArgs
      [] o = "set_window" -> WindowArgs
      [] o = "write_window_raw" -> RawArgs
      [] o = "set_avg_phase_advance" -> PhaseAdvArgs
      [] OTHER -> {0}

SourcesOf(o) ==
    CASE o = "set_laser_trig" -> LaserArgs
      [] o = "set_ring_rf_source" -> RingArgs
      [] OTHER -> {<<>>}

Call(t) ==
    /\ Constructed
    /\ ncalls < MaxCalls
    /\ \E o \in Setters \cup Getters : \E a \in ArgsOf(o) : \E src \in SourcesOf(o) :
           Enter(t, o, a, src)
    /\ ncalls' = ncalls + 1
    /\ UNCHANGED ctor

\* Only the fine offset is used: sequences of set_offset_fine / get_offset_fine.
CallFine(t) ==
    /\ Constructed
    /\ ncalls < MaxFineCalls
    /\ \/ \E a \in FineSeqArgs : Enter(t, "set_offset_fine", a, <<>>)
       \/ Enter(t, "get_offset_fine", 0, <<>>)
    /\ ncalls' = ncalls + 1
    /\ UNCHANGED ctor

\* The bucket, read back, and every setter the claims about it name.
CallBucket(t) ==
    /\ Constructed
    /\ ncalls < MaxBucketCalls
    /\ \/ \E a \in BucketArgs : Enter(t, "set_bucket", a, <<>>)
       \/ Enter(t, "get_bucket", 0, <<>>)
       \/ \E a \in WindowArgs : Enter(t, "set_window", a, <<>>)
       \/ \E a \in FineArgs : Enter(t, "set_offset_fine", a, <<>>)
       \/ \E a \in CoarseArgs : Enter(t, "set_offset_coarse", a, <<>>)
       \/ Enter(t, "set_laser_trig", 0, <<"m", "r", "f">>)
       \/ Enter(t, "set_ring_rf_source", 0, <<"1", "0", "0", "M", "H", "Z">>)
    /\ ncalls' = ncalls + 1
    /\ UNCHANGED ctor

\* Only the source selectors are used, with any string.
CallSource(t) ==
    /\ Constructed
    /\ ncalls < MaxSourceCalls
    /\ \/ \E src \in SourceArgs : Enter(t, "set_laser_trig", 0, src)
       \/ \E src \in SourceArgs : Enter(t, "set_ring_rf_source", 0, src)
       \/ Enter(t, "get_laser_trig", 0, <<>>)
       \/ Enter(t, "get_ring_rf_source", 0, <<>>)
    /\ ncalls' = ncalls + 1
    /\ UNCHANGED ctor

\* The first call on a new controller is set_window(n / DelayDen), any n.
CallWindow(t) ==
    /\ Constructed
    /\ ncalls = 0
    /\ \E n \in 0..(MaxDelay * DelayDen) : Enter(t, "set_window", n, <<>>)
    /\ ncalls' = ncalls + 1
    /\ UNCHANGED ctor

\* Calls that return, calls that fail the range check and a call that raises
\* otherwise, all inside the lock.
CallLive(t) ==
    /\ Constructed
    /\ ncalls < MaxLiveCalls
    /\ \/ \E a \in BucketArgs : Enter(t, "set_bucket", a, <<>>)
       \/ Enter(t, "get_bucket", 0, <<>>)
       \/ \E a \in FineArgs : Enter(t, "set_offset_fine", a, <<>>)
       \/ \E a \in CoarseArgs : Enter(t, "set_offset_coarse", a, <<>>)
       \/ \E a \in RawArgs : Enter(t, "write_window_raw", a, <<>>)
    /\ ncalls' = ncalls + 1
    /\ UNCHANGED ctor

WindowPairArgs == {0, 50 * DelayDen, 1000 * DelayDen}

\* Threads calling set_window side by side.
CallWindowPair(t) ==
    /\ Constructed
    /\ ncalls < MaxWindowPairCalls
    /\ \E n \in WindowPairArgs : Enter(t, "set_window", n, <<>>)
    /\ ncalls' = ncalls + 1
    /\ UNCHANGED ctor

\* ---------------------------------------------------------------- the lock
LockFreeForUnlockedWindow(t) == attr_lock = NoThread \/ frame[t].op = "set_window"

LockFreeForUnlockedGetters(t) == attr_lock = NoThread \/ frame[t].op \in Getters

\* threading.Lock: acquired only when no thread holds it.
LockFreeFor(t) == attr_lock = NoThread

\* `with self.attr_lock:` entry.
Acquire(t) ==
    /\ frame[t].pc = "lock"
    /\ LockFreeFor(t)
    /\ attr_lock' = t
    /\ frame' = [frame EXCEPT ![t].pc = "body", ![t].snap = DevState]
    /\ UNCHANGED <<dev_vars, gpio_vars, ctor, ncalls, hist_vars>>

\* Leaving the `with` block by an exception raised before any statement ran.
Raise(t, exc) ==
    frame' = [frame EXCEPT ![t].pc = "exit", ![t].outcome = exc]

\* Calling self._write_byte(data, mode) for each <<data, mode>> of ws in turn.
StartWrites(t, ws) ==
    frame' = [frame EXCEPT ![t].pc = "pins", ![t].writes = ws]

\* ------------------------------------------------------------- _write_byte
OutputListModeNotReversed(data, mode) ==
    UnpackBitsReversed(data) \o [b \in 1..4 |-> UnpackBitsReversed(mode)[9 - b]]

\* data_list + mode_list (lines 154-156).
OutputList(data, mode) ==
    UnpackBitsReversed(data) \o SubSeq(UnpackBitsReversed(mode), 1, 4)

\* gpio.output(self.pin_list, output_list)
WritePins(t) ==
    /\ frame[t].pc = "pins"
    /\ LET w == Head(frame[t].writes)
           output_list == OutputList(w[1], w[2])
       IN /\ pin_levels' = output_list
          /\ frame' = [frame EXCEPT
                          ![t].pc = "strobe_hi",
                          ![t].gpio = Append(@, <<"pin_list", output_list>>)]
    /\ UNCHANGED <<dev_vars, attr_lock, strobe, last_write, phase_driven, ctor, ncalls, hist_vars>>

\* gpio.output(self.pin_dict["strobe"], 1)
StrobeHigh(t) ==
    /\ frame[t].pc = "strobe_hi"
    /\ strobe' = 1
    /\ frame' = [frame EXCEPT
                    ![t].pc = "strobe_lo",
                    ![t].gpio = Append(@, <<"strobe", <<1>> >>)]
    /\ UNCHANGED <<dev_vars, attr_lock, pin_levels, last_write, phase_driven, ctor, ncalls, hist_vars>>

\* What the bus lines carry: the data byte and the mode code.
BusData == SeqSum([b \in 1..8 |-> pin_levels[b] * (2 ^ (b - 1))])
BusMode == SeqSum([b \in 1..4 |-> pin_levels[8 + b] * (2 ^ (b - 1))])

\* The statement of the method that follows a completed _write_byte.
AfterWrite(o, rest) ==
    IF rest # <<>> THEN "pins"
    ELSE IF o \in {"set_laser_trig", "set_ring_rf_source", "write_window_raw"} THEN "exit"
    ELSE "commit"

StrobeLowLeftHigh(t) ==
    /\ frame[t].pc = "strobe_lo"
    /\ strobe' = 1
    /\ last_write' = [last_write EXCEPT ![BusMode] = BusData]
    /\ phase_driven' = CASE BusMode = mode_dict.inc_phase -> phase_driven + BusData
                          [] BusMode = mode_dict.dec_phase -> phase_driven - BusData
                          [] OTHER -> phase_driven
    /\ frame' = [frame EXCEPT
                    ![t].pc = AfterWrite(frame[t].op, Tail(frame[t].writes)),
                    ![t].writes = Tail(@),
                    ![t].outcome = IF AfterWrite(frame[t].op, Tail(frame[t].writes)) = "exit"
                                   THEN "ok" ELSE @,
                    ![t].gpio = Append(@, <<"strobe", <<1>> >>)]
    /\ UNCHANGED <<dev_vars, attr_lock, pin_levels, ctor, ncalls, hist_vars>>

\* gpio.output(self.pin_dict["strobe"], 0); _write_byte returns.
StrobeLow(t) ==
    /\ frame[t].pc = "strobe_lo"
    /\ strobe' = 0
    /\ last_write' = [last_write EXCEPT ![BusMode] = BusData]
    /\ phase_driven' = CASE BusMode = mode_dict.inc_phase -> phase_driven + BusData
                          [] BusMode = mode_dict.dec_phase -> phase_driven - BusData
                          [] OTHER -> phase_driven
    /\ frame' = [frame EXCEPT
                    ![t].pc = AfterWrite(frame[t].op, Tail(frame[t].writes)),
                    ![t].writes = Tail(@),
                    ![t].outcome = IF AfterWrite(frame[t].op, Tail(frame[t].writes)) = "exit"
                                   THEN "ok" ELSE @,
                    ![t].gpio = Append(@, <<"strobe", <<0>> >>)]
    /\ UNCHANGED <<dev_vars, attr_lock, pin_levels, ctor, ncalls, hist_vars>>

\* --------------------------------------------------- set_bucket, get_bucket
\* offset = target_bucket * 4 + self.offset_coarse
BucketOffset(b, coarse) == b * 4 + coarse

BucketStoredOffset(b, offset) == offset

\* The value set_bucket stores in self.target_bucket.
BucketStored(b, offset) == b

SetBucketBodyStoreFirst(t) ==
    /\ frame[t].pc = "body" /\ frame[t].op = "set_bucket"
    /\ target_bucket' = frame[t].arg
    /\ LET offset == BucketOffset(frame[t].arg, offset_coarse)
       IN IF offset > 255
          THEN Raise(t, "ValueError")
          ELSE StartWrites(t, << <<offset, mode_dict.bucket>> >>)
    /\ UNCHANGED <<window, laser_trig, ring_rf, offset_fine, offset_coarse,
                   current_phase_counter, phase_adv, attr_lock, gpio_vars, ctor, ncalls,
                   hist_vars>>

SetBucketBody(t) ==
    /\ frame[t].pc = "body" /\ frame[t].op = "set_bucket"
    /\ LET offset == BucketOffset(frame[t].arg, offset_coarse)
       IN IF offset > 255
          THEN Raise(t, "ValueError")
          ELSE StartWrites(t, << <<offset, mode_dict.bucket>> >>)
    /\ UNCHANGED <<dev_vars, attr_lock, gpio_vars, ctor, ncalls, hist_vars>>

SetBucketCommit(t) ==
    /\ frame[t].pc = "commit" /\ frame[t].op = "set_bucket"
    /\ target_bucket' = BucketStored(frame[t].arg, BucketOffset(frame[t].arg, offset_coarse))
    /\ bucket_set' = frame[t].arg
    /\ since_bucket' = {}
    /\ frame' = [frame EXCEPT ![t].pc = "exit", ![t].outcome = "ok"]
    /\ UNCHANGED <<window, laser_trig, ring_rf, offset_fine, offset_coarse,
                   current_phase_counter, phase_adv, attr_lock, gpio_vars, ctor, ncalls>>

\* A getter's body: the read under the lock.
GetBody(t, o, value) ==
    /\ frame[t].pc = "body" /\ frame[t].op = o
    /\ frame' = [frame EXCEPT ![t].pc = "exit", ![t].ret = value, ![t].outcome = "ok"]
    /\ UNCHANGED <<dev_vars, attr_lock, gpio_vars, ctor, ncalls, hist_vars>>

GetBucket(t) == GetBody(t, "get_bucket", target_bucket)

\* --------------------------------------- write_window_raw, set/get_window
\* self.mode_dict["delay"]: no such key.
WriteWindowRawBody(t) ==
    /\ frame[t].pc = "body" /\ frame[t].op = "write_window_raw"
    /\ IF "delay" \in ModeKeys
       THEN StartWrites(t, << <<frame[t].arg, mode_dict["delay"]>> >>)
       ELSE Raise(t, "KeyError")
    /\ UNCHANGED <<dev_vars, attr_lock, gpio_vars, ctor, ncalls, hist_vars>>

SetWindowBody(t) ==
    /\ frame[t].pc = "body" /\ frame[t].op = "set_window"
    /\ StartWrites(t, << <<frame[t].ind, mode_dict.window>> >>)
    /\ UNCHANGED <<dev_vars, attr_lock, gpio_vars, ctor, ncalls, hist_vars>>

SetWindowCommit(t) ==
    /\ frame[t].pc = "commit" /\ frame[t].op = "set_window"
    /\ window' = frame[t].delay_min
    /\ frame' = [frame EXCEPT ![t].pc = "exit", ![t].outcome = "ok"]
    /\ UNCHANGED <<target_bucket, laser_trig, ring_rf, offset_fine, offset_coarse,
                   current_phase_counter, phase_adv, attr_lock, gpio_vars, ctor, ncalls,
                   hist_vars>>

GetWindow(t) == GetBody(t, "get_window", window)

\* ------------------------------------------------------- source selectors
IsCoincidenceCaseSensitive(source) == Contains(<<"c", "o", "i", "n">>, source)

\* "coin" in source.lower()
IsCoincidence(source) == Contains(<<"c", "o", "i", "n">>, Lower(source))

\* "REV" in source.upper()
IsRevClock(source) == Contains(<<"R", "E", "V">>, Upper(source))

SetLaserTrigBody(t) ==
    /\ frame[t].pc = "body" /\ frame[t].op = "set_laser_trig"
    /\ laser_trig' = IF IsCoincidence(frame[t].source) THEN 1 ELSE 0
    /\ StartWrites(t, << <<laser_trig', mode_dict.laser_trig_source>> >>)
    /\ UNCHANGED <<target_bucket, window, ring_rf, offset_fine, offset_coarse,
                   current_phase_counter, phase_adv, attr_lock, gpio_vars, ctor, ncalls,
                   hist_vars>>

GetLaserTrig(t) == GetBody(t, "get_laser_trig", laser_trig)

\* The string get_laser_trig returns for the value it read.
LaserTrigName(trig) == IF trig = 0 THEN "MRF" ELSE "COINCIDENCE"

SetRingRfSourceBody(t) ==
    /\ frame[t].pc = "body" /\ frame[t].op = "set_ring_rf_source"
    /\ ring_rf' = IF IsRevClock(frame[t].source) THEN 0 ELSE 1
    /\ StartWrites(t, << <<ring_rf', mode_dict.ring_rf_source>> >>)
    /\ UNCHANGED <<target_bucket, window, laser_trig, offset_fine, offset_coarse,
                   current_phase_counter, phase_adv, attr_lock, gpio_vars, ctor, ncalls,
                   hist_vars>>

GetRingRfSource(t) == GetBody(t, "get_ring_rf_source", ring_rf)

\* The string get_ring_rf_source returns for the value it read.
RingRfName(rf) == IF rf = 0 THEN "REV_CLOCK" ELSE "100MHZ"

\* ------------------------------------------------------------- fine offset
\* if offset < 0 or delta_phase > 255
FineOutOfRange(offset, delta_phase) == offset < 0 \/ delta_phase > 255

FineWritesResume(delta_phase) ==
    << <<Uint8(1), mode_dict.pause_trig>>,
       IF delta_phase > 0
       THEN <<Uint8(delta_phase), mode_dict.inc_phase>>
       ELSE <<Uint8(-delta_phase), mode_dict.dec_phase>>,
       <<Uint8(0), mode_dict.pause_trig>> >>

\* The phase write sequence (lines 282-286).
FineWrites(delta_phase) ==
    << <<Uint8(1), mode_dict.pause_trig>>,
       IF delta_phase > 0
       THEN <<Uint8(delta_phase), mode_dict.inc_phase>>
       ELSE <<Uint8(-delta_phase), mode_dict.dec_phase>> >>

SetOffsetFineBody(t) ==
    /\ frame[t].pc = "body" /\ frame[t].op = "set_offset_fine"
    /\ LET delta_phase == frame[t].arg - current_phase_counter
       IN IF FineOutOfRange(frame[t].arg, delta_phase)
          THEN Raise(t, "ValueError")
          ELSE StartWrites(t, FineWrites(delta_phase))
    /\ UNCHANGED <<dev_vars, attr_lock, gpio_vars, ctor, ncalls, hist_vars>>

SetOffsetFineCommit(t) ==
    /\ frame[t].pc = "commit" /\ frame[t].op = "set_offset_fine"
    /\ offset_fine' = frame[t].arg
    /\ current_phase_counter' = frame[t].arg
    /\ frame' = [frame EXCEPT ![t].pc = "exit", ![t].outcome = "ok",
                              ![t].ret = offset_fine']
    /\ UNCHANGED <<target_bucket, window, laser_trig, ring_rf, offset_coarse, phase_adv,
                   attr_lock, gpio_vars, ctor, ncalls, hist_vars>>

GetOffsetFine(t) == GetBody(t, "get_offset_fine", offset_fine)

\* ----------------------------------------------------------- coarse offset
CoarseOffsetNoBucket(coarse, b) == coarse

\* offset = offset_coarse + self.target_bucket * 4
CoarseOffset(coarse, b) == coarse + b * 4

SetOffsetCoarseBody(t) ==
    /\ frame[t].pc = "body" /\ frame[t].op = "set_offset_coarse"
    /\ LET offset == CoarseOffset(frame[t].arg, target_bucket)
       IN IF offset > 255
          THEN Raise(t, "ValueError")
          ELSE StartWrites(t, << <<frame[t].arg, mode_dict.bucket>> >>)
    /\ UNCHANGED <<dev_vars, attr_lock, gpio_vars, ctor, ncalls, hist_vars>>

SetOffsetCoarseCommit(t) ==
    /\ frame[t].pc = "commit" /\ frame[t].op = "set_offset_coarse"
    /\ offset_coarse' = frame[t].arg
    /\ frame' = [frame EXCEPT ![t].pc = "exit", ![t].outcome = "ok"]
    /\ UNCHANGED <<target_bucket, window, laser_trig, ring_rf, offset_fine,
                   current_phase_counter, phase_adv, attr_lock, gpio_vars, ctor, ncalls,
                   hist_vars>>

GetOffsetCoarse(t) == GetBody(t, "get_offset_coarse", offset_coarse)

SetAvgPhaseAdvanceIntoCounter(t) ==
    /\ frame[t].pc = "body" /\ frame[t].op = "set_avg_phase_advance"
    /\ current_phase_counter' = frame[t].arg
    /\ frame' = [frame EXCEPT ![t].pc = "exit", ![t].outcome = "ok"]
    /\ UNCHANGED <<target_bucket, window, laser_trig, ring_rf, offset_fine, offset_coarse,
                   phase_adv, attr_lock, gpio_vars, ctor, ncalls, hist_vars>>

\* self.phase_adv = value
SetAvgPhaseAdvance(t) ==
    /\ frame[t].pc = "body" /\ frame[t].op = "set_avg_phase_advance"
    /\ phase_adv' = frame[t].arg
    /\ frame' = [frame EXCEPT ![t].pc = "exit", ![t].outcome = "ok"]
    /\ UNCHANGED <<target_bucket, window, laser_trig, ring_rf, offset_fine, offset_coarse,
                   current_phase_counter, attr_lock, gpio_vars, ctor, ncalls, hist_vars>>

\* ------------------------------------------------------- leaving the method
ReleaseUnlessRaised(t) ==
    /\ frame[t].pc = "exit"
    /\ attr_lock' = IF frame[t].outcome = "ok" THEN NoThread ELSE attr_lock
    /\ ctor' = IF Constructed THEN ctor ELSE ctor + 1
    /\ since_bucket' = IF frame[t].op \in Setters \ {"set_bucket"}
                       THEN since_bucket \cup {frame[t].outcome} ELSE since_bucket
    /\ frame' = [frame EXCEPT ![t] = IdleFrame]
    /\ UNCHANGED <<dev_vars, gpio_vars, ncalls, bucket_set>>

\* The `with` block exits (normally or by the exception) and the call returns.
Release(t) ==
    /\ frame[t].pc = "exit"
    /\ attr_lock' = NoThread
    /\ ctor' = IF Constructed THEN ctor ELSE ctor + 1
    /\ since_bucket' = IF frame[t].op \in Setters \ {"set_bucket"}
                       THEN since_bucket \cup {frame[t].outcome} ELSE since_bucket
    /\ frame' = [frame EXCEPT ![t] = IdleFrame]
    /\ UNCHANGED <<dev_vars, gpio_vars, ncalls, bucket_set>>

Next ==
    \/ CtorCall
    \/ \E t \in Threads :
        \/ Call(t)
        \/ Acquire(t)
        \/ WritePins(t)
        \/ StrobeHigh(t)
        \/ StrobeLow(t)
        \/ SetBucketBody(t)
        \/ SetBucketCommit(t)
        \/ GetBucket(t)
        \/ WriteWindowRawBody(t)
        \/ SetWindowBody(t)
        \/ SetWindowCommit(t)
        \/ GetWindow(t)
        \/ SetLaserTrigBody(t)
        \/ GetLaserTrig(t)
        \/ SetRingRfSourceBody(t)
        \/ GetRingRfSource(t)
        \/ SetOffsetFineBody(t)
        \/ SetOffsetFineCommit(t)
        \/ GetOffsetFine(t)
        \/ SetOffsetCoarseBody(t)
        \/ SetOffsetCoarseCommit(t)
        \/ GetOffsetCoarse(t)
        \/ SetAvgPhaseAdvance(t)
        \/ Release(t)

Spec == Init /\ [][Next]_vars

\* The steps __init__ and every setter share.
Common(t) ==
    \/ Acquire(t)
    \/ WritePins(t)
    \/ StrobeHigh(t)
    \/ StrobeLow(t)
    \/ SetBucketBody(t)
    \/ SetBucketCommit(t)
    \/ SetWindowBody(t)
    \/ SetWindowCommit(t)
    \/ SetLaserTrigBody(t)
    \/ SetRingRfSourceBody(t)
    \/ SetOffsetFineBody(t)
    \/ SetOffsetFineCommit(t)
    \/ Release(t)

\* The steps of a thread inside a call.
Running(t) ==
    \/ Common(t)
    \/ GetBucket(t)
    \/ WriteWindowRawBody(t)
    \/ SetOffsetCoarseBody(t)
    \/ SetOffsetCoarseCommit(t)

NextLive ==
    \/ CtorCall
    \/ \E t \in Threads :
        \/ CallLive(t)
        \/ Running(t)

\* A thread that can take a step of its call does take it.
SpecLive ==
    /\ Init /\ [][NextLive]_vars
    /\ WF_vars(CtorCall)
    /\ \A t \in Threads : WF_vars(Running(t))

NextFine ==
    \/ CtorCall
    \/ \E t \in Threads :
        \/ CallFine(t)
        \/ Common(t)
        \/ GetOffsetFine(t)

SpecFine == Init /\ [][NextFine]_vars

NextBucket ==
    \/ CtorCall
    \/ \E t \in Threads :
        \/ CallBucket(t)
        \/ Common(t)
        \/ GetBucket(t)
        \/ SetOffsetCoarseBody(t)
        \/ SetOffsetCoarseCommit(t)

SpecBucket == Init /\ [][NextBucket]_vars

NextSource ==
    \/ CtorCall
    \/ \E t \in Threads :
        \/ CallSource(t)
        \/ Common(t)
        \/ GetLaserTrig(t)
        \/ GetRingRfSource(t)

SpecSource == Init /\ [][NextSource]_vars

NextWindow ==
    \/ CtorCall
    \/ \E t \in Threads :
        \/ CallWindow(t)
        \/ Common(t)

SpecWindow == Init /\ [][NextWindow]_vars

NextWindowPair ==
    \/ CtorCall
    \/ \E t \in Threads :
        \/ CallWindowPair(t)
        \/ Common(t)

SpecWindowPair == Init /\ [][NextWindowPair]_vars

\* =================================================================== claims
\* The byte and the mode code a level vector of pin_list carries.
LevelsData(levels) == SeqSum([b \in 1..8 |-> levels[b] * (2 ^ (b - 1))])
LevelsMode(levels) == SeqSum([b \in 1..4 |-> levels[8 + b] * (2 ^ (b - 1))])

IsPinListCall(c) == c[1] = "pin_list"

\* The <<data, mode>> pairs driven on the bus by a sequence of GPIO calls.
WritesOf(g) ==
    LET p == SelectSeq(g, IsPinListCall)
    IN [i \in 1..Len(p) |-> <<LevelsData(p[i][2]), LevelsMode(p[i][2])>>]

\* A write sequence of t's call is in flight: its first GPIO output call was
\* made and its last strobe-low call was not.
InFlight(t) ==
    /\ frame[t].gpio # <<>>
    /\ frame[t].pc \in {"pins", "strobe_hi", "strobe_lo"}

AtExit(t, o) == frame[t].pc = "exit" /\ frame[t].op = o

RangeChecked == {"set_bucket", "set_offset_coarse", "set_offset_fine"}

\* C1: when set_bucket, set_offset_coarse or set_offset_fine fails with a range
\* error, the call has made no GPIO output call and every Device State field
\* has the value it had when the call took the lock.
C1_RangeErrorLeavesNoTrace ==
    \A t \in Threads :
        (frame[t].pc = "exit" /\ frame[t].outcome = "ValueError") =>
            /\ frame[t].op \in RangeChecked
            /\ frame[t].gpio = <<>>
            /\ DevState = frame[t].snap

\* C1 witness: set_bucket(64) has failed on a controller whose bucket was set
\* to 63 before, and the stored bucket is still 63.
C1_Witness ==
    \E t \in Threads :
        /\ AtExit(t, "set_bucket") /\ frame[t].outcome = "ValueError"
        /\ frame[t].arg * 4 + offset_coarse > 255
        /\ target_bucket = 63

\* C2 (as claimed): set_offset_fine(target) ends in a range error whenever
\* target < 0 or |target - current_phase_counter| > 255.
C2_FineRangeErrorBothSigns ==
    \A t \in Threads :
        (/\ AtExit(t, "set_offset_fine")
         /\ \/ frame[t].arg < 0
            \/ Abs(frame[t].arg - frame[t].snap.current_phase_counter) > 255)
        => frame[t].outcome = "ValueError"

\* C3: the stored bucket and coarse offset always satisfy
\* 0 <= target_bucket * 4 + offset_coarse <= 255, and between the range check
\* of a set_bucket or set_offset_coarse call and its commit neither of the two
\* stored values is changed by another call.
C3_CombinedOffsetFitsByte ==
    /\ 0 <= target_bucket * 4 + offset_coarse
    /\ target_bucket * 4 + offset_coarse <= 255
    /\ \A t \in Threads :
        (/\ frame[t].op \in {"set_bucket", "set_offset_coarse"}
         /\ frame[t].pc \in {"pins", "strobe_hi", "strobe_lo", "commit"})
        => /\ target_bucket = frame[t].snap.target_bucket
           /\ offset_coarse = frame[t].snap.offset_coarse

\* C3 witness: the combined value is at its limit 255 and set_bucket(63) is
\* about to commit while another thread waits to set the coarse offset to 4.
C3_Witness ==
    \E t, u \in Threads :
        /\ t # u
        /\ frame[t].op = "set_bucket" /\ frame[t].pc = "commit" /\ frame[t].arg = 63
        /\ offset_coarse = 3
        /\ frame[u].op = "set_offset_coarse" /\ frame[u].pc = "lock" /\ frame[u].arg = 4

\* C4 (as claimed): a successful set_bucket or set_offset_coarse has written,
\* under the bucket mode, exactly the byte target_bucket * 4 + offset_coarse of
\* the values now stored, and that is the last byte written under that mode.
C4_BucketModeCarriesCombinedByte ==
    \A t \in Threads :
        (/\ frame[t].pc = "exit" /\ frame[t].outcome = "ok"
         /\ frame[t].op \in {"set_bucket", "set_offset_coarse"})
        => /\ WritesOf(frame[t].gpio) =
                  << <<target_bucket * 4 + offset_coarse, mode_dict.bucket>> >>
           /\ last_write[mode_dict.bucket] = target_bucket * 4 + offset_coarse

\* C5: while a write sequence of one call is in flight, no other call makes a
\* GPIO output call.
C5_OneWriteSequenceInFlight ==
    [][\A t, u \in Threads :
          (t # u /\ InFlight(t)) => Len(frame'[u].gpio) <= Len(frame[u].gpio)]_vars

\* C5 witness: a setter is between strobe high and strobe low while a setter
\* called by another thread waits for the lock.
C5_Witness ==
    \E t, u \in Threads :
        /\ t # u
        /\ InFlight(t) /\ frame[t].pc = "strobe_lo"
        /\ frame[u].pc = "lock" /\ frame[u].op \in Setters

\* C6: a getter reads under the lock while no write sequence is in flight, and
\* get_laser_trig / get_ring_rf_source read the value of the last completed
\* write under their mode.
C6_GetterSeesCompletedWrites ==
    \A t \in Threads :
        (frame[t].pc = "exit" /\ frame[t].op \in Getters) =>
            /\ \A u \in Threads : ~InFlight(u)
            /\ frame[t].op = "get_laser_trig" =>
                   frame[t].ret = last_write[mode_dict.laser_trig_source]
            /\ frame[t].op = "get_ring_rf_source" =>
                   frame[t].ret = last_write[mode_dict.ring_rf_source]

\* C6 witness: set_laser_trig has stored a new value whose write is still in
\* flight, and get_laser_trig, called by another thread, is held at the lock.
C6_Witness ==
    \E t, u \in Threads :
        /\ t # u
        /\ frame[t].op = "set_laser_trig" /\ InFlight(t)
        /\ laser_trig # last_write[mode_dict.laser_trig_source]
        /\ frame[u].op = "get_laser_trig" /\ frame[u].pc = "lock"

\* C7 (as claimed): a successful set_offset_fine(target) has emitted exactly
\* two writes, pause_trig 1 and then inc_phase delta (delta > 0) or dec_phase
\* |delta|, and current_phase_counter = offset_fine = target.
C7_FineWritesPauseThenDelta ==
    \A t \in Threads :
        (AtExit(t, "set_offset_fine") /\ frame[t].outcome = "ok") =>
            LET delta == frame[t].arg - frame[t].snap.current_phase_counter
            IN /\ WritesOf(frame[t].gpio) =
                      << <<1, mode_dict.pause_trig>>,
                         IF delta > 0 THEN <<delta, mode_dict.inc_phase>>
                         ELSE <<Abs(delta), mode_dict.dec_phase>> >>
               /\ current_phase_counter = frame[t].arg
               /\ offset_fine = frame[t].arg
               /\ frame[t].ret = frame[t].arg

\* C8: no call drives pause_trig with data 0, and from the set_offset_fine of
\* construction on the last value written under pause_trig is 1.
C8_PauseTrigNeverCleared ==
    /\ last_write[mode_dict.pause_trig] # 0
    /\ \A t \in Threads : \A i \in 1..Len(WritesOf(frame[t].gpio)) :
           WritesOf(frame[t].gpio)[i] # <<0, mode_dict.pause_trig>>
    /\ ctor >= 3 => last_write[mode_dict.pause_trig] = 1

\* C8 witness: after construction a further set_offset_fine has succeeded and
\* another setter has written since.
C8_Witness ==
    /\ Constructed
    /\ current_phase_counter = 100
    /\ \E t \in Threads : AtExit(t, "set_ring_rf_source")
    /\ last_write[mode_dict.pause_trig] = 1

\* C9: get_bucket returns the argument of the last successful set_bucket,
\* whatever other setters ran in between and however they ended.
C9_GetBucketReturnsLastSet ==
    \A t \in Threads : AtExit(t, "get_bucket") => frame[t].ret = bucket_set

\* C9 witness: get_bucket returns 63 after set_bucket(63) and a later setter
\* that failed.
C9_Witness ==
    \E t \in Threads :
        /\ AtExit(t, "get_bucket") /\ frame[t].ret = 63
        /\ since_bucket = {"ValueError"}

\* C10: set_window(d) writes under the window mode the lowest index i in
\* 0..255 that minimises |delay_array[i] - d| and stores delay_array[i].
C10_WindowNearestLowestIndex ==
    \A t \in Threads :
        (AtExit(t, "set_window") /\ frame[t].outcome = "ok") =>
            LET w == WritesOf(frame[t].gpio)
                i == w[1][1]
                n == frame[t].arg
            IN /\ Len(w) = 1
               /\ w[1][2] = mode_dict.window
               /\ i \in 0..255
               /\ \A j \in 0..255 : AbsDiff(i, n) <= AbsDiff(j, n)
               /\ \A j \in 0..(i - 1) : AbsDiff(j, n) > AbsDiff(i, n)
               /\ last_write[mode_dict.window] = i
               /\ window = delay_array[i]

\* C10 witness: set_window(50) has stored 77, the tap sum nearest to 50, and
\* not 50.
C10_Witness ==
    \E t \in Threads :
        /\ AtExit(t, "set_window") /\ frame[t].arg = 50 * DelayDen
        /\ window = 77 /\ window * DelayDen # frame[t].arg

\* The taps of the claim, bit 0 first, and the sum of those selected by the
\* bits set in i.
ClaimTaps == <<16, 77, 140, 166, 231, 292, 343, 424>>

RECURSIVE SumTaps(_)
SumTaps(bits) ==
    IF bits = {} THEN 0
    ELSE LET b == CHOOSE x \in bits : TRUE
         IN ClaimTaps[b + 1] + SumTaps(bits \ {b})

BitsSetIn(i) == {b \in 0..7 : (i \div (2 ^ b)) % 2 = 1}

TableIsTapSums ==
    /\ DOMAIN delay_array = 0..255
    /\ Cardinality(DOMAIN delay_array) = 256
    /\ \A i \in 0..255 : delay_array[i] = SumTaps(BitsSetIn(i))

\* C11: the delay table has exactly 256 entries, entry i is the sum of the taps
\* selected by the bits set in i (bit 0 selects 16), and the table set_window
\* reads after construction is that table: the value it stores is the tap sum
\* of the index it wrote.
C11_DelayTableIsTapSums ==
    /\ TableIsTapSums
    /\ \A t \in Threads :
        (AtExit(t, "set_window") /\ frame[t].outcome = "ok") =>
            window = SumTaps(BitsSetIn(last_write[mode_dict.window]))

\* C11 witness: set_window has written index 3 (bits 0 and 1) and stored
\* 16 + 77 = 93.
C11_Witness ==
    \E t \in Threads :
        /\ AtExit(t, "set_window") /\ frame[t].outcome = "ok"
        /\ Constructed
        /\ last_write[mode_dict.window] = 3
        /\ window = 93

\* s holds the four letters w somewhere, each in either case; w is given as
\* four sets of one-character strings.
HoldsWord(s, w) ==
    \E i \in 1..(Len(s) - Len(w) + 1) : \A k \in 1..Len(w) : s[i + k - 1] \in w[k]

HoldsCoin(s) == HoldsWord(s, << {"c", "C"}, {"o", "O"}, {"i", "I"}, {"n", "N"} >>)
HoldsRev(s) == HoldsWord(s, << {"r", "R"}, {"e", "E"}, {"v", "V"} >>)

\* C12: set_laser_trig and set_ring_rf_source never fail and write exactly one
\* byte under their own mode code: 1 / COINCIDENCE when the input holds "coin"
\* in any case, else 0 / MRF; 0 / REV_CLOCK when it holds "REV" in any case,
\* else 1 / 100MHZ.  A getter returns the value of the last such write.
C12_SourceSelectors ==
    \A t \in Threads :
        /\ frame[t].op \in {"set_laser_trig", "set_ring_rf_source"} =>
               frame[t].outcome \in {"none", "ok"}
        /\ AtExit(t, "set_laser_trig") =>
               LET v == IF HoldsCoin(frame[t].source) THEN 1 ELSE 0
               IN /\ WritesOf(frame[t].gpio) = << <<v, mode_dict.laser_trig_source>> >>
                  /\ laser_trig = v
                  /\ LaserTrigName(laser_trig) =
                         (IF HoldsCoin(frame[t].source) THEN "COINCIDENCE" ELSE "MRF")
        /\ AtExit(t, "set_ring_rf_source") =>
               LET v == IF HoldsRev(frame[t].source) THEN 0 ELSE 1
               IN /\ WritesOf(frame[t].gpio) = << <<v, mode_dict.ring_rf_source>> >>
                  /\ ring_rf = v
                  /\ RingRfName(ring_rf) =
                         (IF HoldsRev(frame[t].source) THEN "REV_CLOCK" ELSE "100MHZ")
        /\ AtExit(t, "get_laser_trig") =>
               /\ frame[t].ret = laser_trig
               /\ frame[t].ret = last_write[mode_dict.laser_trig_source]
        /\ AtExit(t, "get_ring_rf_source") =>
               /\ frame[t].ret = ring_rf
               /\ frame[t].ret = last_write[mode_dict.ring_rf_source]

\* C12 witness: after construction left the trigger at COINCIDENCE, a
\* set_laser_trig without "coin" ran and get_laser_trig returns MRF.
C12_Witness ==
    \E t \in Threads :
        /\ AtExit(t, "get_laser_trig")
        /\ LaserTrigName(frame[t].ret) = "MRF"
        /\ last_write[mode_dict.laser_trig_source] = 0

ModeCodes == {mode_dict[k] : k \in ModeKeys}

Bit(x, b) == (x \div (2 ^ b)) % 2

\* The level vector of (data, mode) is data bit 0..7 then mode bit 0..3.
IsLevelVectorOf(levels, data, mode) ==
    /\ Len(levels) = 12
    /\ \A b \in 0..7 : levels[b + 1] = Bit(data, b)
    /\ \A b \in 0..3 : levels[9 + b] = Bit(mode, b)

EncodingRoundTrips ==
    /\ \A data \in 0..255 : \A mode \in ModeCodes :
           /\ IsLevelVectorOf(OutputList(data, mode), data, mode)
           /\ LevelsData(OutputList(data, mode)) = data
           /\ LevelsMode(OutputList(data, mode)) = mode
    /\ \A m1, m2 \in ModeCodes :
           m1 # m2 => SubSeq(OutputList(0, m1), 9, 12) # SubSeq(OutputList(0, m2), 9, 12)

\* C13: the GPIO calls of a method call come in groups of three: pin_list set
\* at once to the level vector of the (data, mode) being written, strobe 1,
\* strobe 0; and for every data byte and mode code the level vector decodes
\* back to (data, mode), distinct codes giving distinct mode bits.
C13_WriteIsPinsThenStrobePulse ==
    /\ EncodingRoundTrips
    /\ \A t \in Threads :
        LET g == frame[t].gpio
        IN /\ \A k \in 1..Len(g) :
                /\ k % 3 = 1 => g[k][1] = "pin_list" /\ Len(g[k][2]) = 12
                /\ k % 3 = 2 => g[k] = <<"strobe", <<1>> >>
                /\ k % 3 = 0 => g[k] = <<"strobe", <<0>> >>
           /\ frame[t].pc \in {"strobe_hi", "strobe_lo"} =>
                /\ Len(g) % 3 = (IF frame[t].pc = "strobe_hi" THEN 1 ELSE 2)
                /\ IsLevelVectorOf(g[Len(g) - (Len(g) % 3) + 1][2],
                                   Head(frame[t].writes)[1], Head(frame[t].writes)[2])
                /\ pin_levels = g[Len(g) - (Len(g) % 3) + 1][2]
                /\ strobe = (IF frame[t].pc = "strobe_hi" THEN 0 ELSE 1)
           /\ frame[t].pc \in {"pins", "commit", "exit"} => Len(g) % 3 = 0

\* C13 witness: set_offset_fine(100) has completed its two writes in six GPIO
\* calls, the second carrying data 100 under inc_phase.
C13_Witness ==
    \E t \in Threads :
        /\ AtExit(t, "set_offset_fine") /\ frame[t].arg = 100
        /\ Len(frame[t].gpio) = 6
        /\ WritesOf(frame[t].gpio)[2] = <<100, mode_dict.inc_phase>>

\* C14: a call ends without an exception or with the range error of
\* set_bucket, set_offset_coarse or set_offset_fine only; write_window_raw(n)
\* returns normally after writing n under the window mode.
C14_OnlyRangeErrors ==
    \A t \in Threads :
        /\ frame[t].outcome \in {"none", "ok", "ValueError"}
        /\ frame[t].outcome = "ValueError" =>
               frame[t].op \in {"set_bucket", "set_offset_coarse", "set_offset_fine"}
        /\ AtExit(t, "write_window_raw") =>
               /\ frame[t].outcome = "ok"
               /\ WritesOf(frame[t].gpio) = << <<frame[t].arg, mode_dict.window>> >>

\* C15: when a set_offset_fine call has succeeded, the bytes strobed under
\* inc_phase minus the bytes strobed under dec_phase since power-up add up to
\* current_phase_counter.
C15_PhaseCounterMatchesDrivenBytes ==
    \A t \in Threads :
        (AtExit(t, "set_offset_fine") /\ frame[t].outcome = "ok") =>
            phase_driven = current_phase_counter

\* C16: whenever the lock is free, the stored window is the delay table entry
\* at the data byte last written under the window mode, however concurrent
\* set_window calls interleave.
C16_WindowMatchesLastWindowWrite ==
    (attr_lock = NoThread /\ last_write[mode_dict.window] # None) =>
        window = delay_array[last_write[mode_dict.window]]

\* C16 witness: the lock is free after one set_window has completed while
\* another, quantized to a different index before taking the lock, waits.
C16_Witness ==
    \E t \in Threads :
        /\ frame[t].pc = "lock" /\ frame[t].op = "set_window"
        /\ attr_lock = NoThread /\ ncalls = 2
        /\ last_write[mode_dict.window] > 0
        /\ frame[t].ind # last_write[mode_dict.window]
        /\ window = delay_array[last_write[mode_dict.window]]

\* The call at exit is the first one made on the constructed controller.
FirstCallReturns(t, o) == ncalls = 1 /\ AtExit(t, o)

NumericDefaultsReadBack ==
    \A t \in Threads :
        /\ FirstCallReturns(t, "get_bucket") => frame[t].ret = 0
        /\ FirstCallReturns(t, "get_window") => frame[t].ret = 0
        /\ FirstCallReturns(t, "get_offset_fine") => frame[t].ret = 0
        /\ FirstCallReturns(t, "get_offset_coarse") => frame[t].ret = 0
        /\ FirstCallReturns(t, "get_ring_rf_source") => RingRfName(frame[t].ret) = "REV_CLOCK"

\* C17 as stated: a getter called first on a new controller returns 0 for
\* bucket, window, fine and coarse offset, REV_CLOCK for the ring RF source and
\* MRF for the laser trigger.
C17_ConstructedReadsDefaultsAndMrf ==
    /\ NumericDefaultsReadBack
    /\ \A t \in Threads :
        FirstCallReturns(t, "get_laser_trig") => LaserTrigName(frame[t].ret) = "MRF"

\* C17 amended: as above, but the laser trigger reads COINCIDENCE, which the
\* constructor selects last.
C17_ConstructedReadsDefaultsAndCoincidence ==
    /\ NumericDefaultsReadBack
    /\ \A t \in Threads :
        FirstCallReturns(t, "get_laser_trig") =>
            /\ LaserTrigName(frame[t].ret) = "COINCIDENCE"
            /\ last_write[mode_dict.laser_trig_source] = 1

\* C17 witness: get_laser_trig, called first on a new controller, returns
\* COINCIDENCE.
C17_Witness ==
    \E t \in Threads :
        /\ FirstCallReturns(t, "get_laser_trig")
        /\ LaserTrigName(frame[t].ret) = "COINCIDENCE"

NoHardwareOps == Getters \cup {"set_avg_phase_advance"}

GpioCallBy(t) == Len(frame'[t].gpio) > Len(frame[t].gpio)

\* C18: a step of a getter or of set_avg_phase_advance makes no GPIO output
\* call and changes none of target_bucket, window, laser_trig, ring_rf,
\* offset_fine, offset_coarse, current_phase_counter; every GPIO output call,
\* and every change of a pin level, is a step of the write primitive run by a
\* setter that holds the lock.
C18_OnlySettersDriveGpio ==
    [][/\ \A t \in Threads :
            (frame'[t] # frame[t]
                /\ (frame[t].op \in NoHardwareOps \/ frame'[t].op \in NoHardwareOps)) =>
                /\ UNCHANGED <<target_bucket, window, laser_trig, ring_rf, offset_fine,
                               offset_coarse, current_phase_counter>>
                /\ UNCHANGED <<pin_levels, strobe, last_write>>
                /\ ~GpioCallBy(t)
       /\ (pin_levels' # pin_levels \/ strobe' # strobe \/ \E t \in Threads : GpioCallBy(t)) =>
            \E t \in Threads :
                /\ GpioCallBy(t)
                /\ frame[t].op \in Setters \ NoHardwareOps
                /\ frame[t].pc \in {"pins", "strobe_hi", "strobe_lo"}
                /\ attr_lock = t]_vars

\* C18 witness: get_bucket returns 63 after a set_bucket(63), having made no
\* GPIO output call.
C18_Witness ==
    \E t \in Threads :
        /\ AtExit(t, "get_bucket") /\ frame[t].ret = 63
        /\ frame[t].gpio = <<>>
        /\ last_write[mode_dict.bucket] = 63 * 4

\* C19: under fair scheduling every call that was made returns or raises, and
\* a call that failed its range check (or raised otherwise) while holding the
\* lock frees it; a thread outside a call never holds the lock.
C19_EveryCallReturnsAndFreesLock ==
    /\ \A t \in Threads : (frame[t].pc # "idle") ~> (frame[t].pc = "idle")
    /\ \A t \in Threads :
           (frame[t].outcome \in {"ValueError", "KeyError"} /\ attr_lock = t)
               ~> (attr_lock = NoThread)
    /\ [](\A t \in Threads : frame[t].pc \in {"idle", "lock"} => attr_lock # t)

\* C19 witness: a set_bucket call has failed its range check and still holds
\* the lock while a call of another thread waits for it.
C19_Witness ==
    \E t, u \in Threads :
        /\ t # u
        /\ AtExit(t, "set_bucket") /\ frame[t].outcome = "ValueError" /\ attr_lock = t
        /\ frame[u].pc = "lock"

\* C20: the data and mode lines change only while the strobe is low; the
\* strobe is high only between the strobe-high and the strobe-low call of the
\* one write in flight, whose thread holds the lock, and while it is high the
\* only line that changes is the strobe, lowered by that same write.
C20_LinesChangeOnlyWhileStrobeLow ==
    /\ [](strobe = 1 =>
            \E t \in Threads : frame[t].pc = "strobe_lo" /\ attr_lock = t)
    /\ []((\A t \in Threads : ~InFlight(t)) => strobe = 0)
    /\ [][/\ pin_levels' # pin_levels => (strobe = 0 /\ strobe' = 0)
          /\ strobe = 1 =>
                /\ pin_levels' = pin_levels
                /\ strobe' = 0 =>
                      \E t \in Threads :
                          /\ frame[t].pc = "strobe_lo"
                          /\ frame'[t].gpio = Append(frame[t].gpio, <<"strobe", <<0>> >>)]_vars

\* C20 witness: the strobe is high over the bucket word of set_bucket(63)
\* while a setter of another thread waits for the lock.
C20_Witness ==
    \E t, u \in Threads :
        /\ t # u
        /\ strobe = 1 /\ frame[t].op = "set_bucket"
        /\ LevelsData(pin_levels) = 63 * 4 /\ LevelsMode(pin_levels) = mode_dict.bucket
        /\ frame[u].pc = "lock" /\ frame[u].op \in Setters \ NoHardwareOps

====
